---- MODULE Spec2Model ----
(***************************************************************************)
(* Custom-resource lifecycle handlers of the bottling line demo.           *)
(*                                                                         *)
(* Four Lambda handlers (IoT role alias, IoT thing + certificate + policy, *)
(* IoT thing group, Greengrass v2 deployment) receive a CloudFormation     *)
(* custom resource event and run onCreate / onUpdate / onDelete.  Every    *)
(* `await client.send(command)` is one step of the model; its outcome      *)
(* (resolve or reject, and the response it resolves to) is chosen by the   *)
(* external service.  `calls` is the log a fake client would record.       *)
(***************************************************************************)
EXTENDS Integers, Sequences, FiniteSets, TLC

VARIABLES
    kind,       \* which handler module runs the invocation
    event,      \* the CloudFormation event of the invocation
    pc,         \* position of the invocation (the await it is about to issue)
    locals,     \* local variables of onCreate (let declarations)
    list,       \* the response list a for..of loop iterates over
    idx,        \* position of the loop in `list`
    calls,      \* external calls issued by the invocation, in order
    result,     \* value the handler's promise resolved to
    raised,     \* error the handler's promise rejected with
    exitCode,   \* process.exitCode of the Node.js process
    prior,      \* outcome of the previous invocation when the same event is re-delivered
    constructs, \* construct tree of the CDK app: the children of each stack
    provided    \* what the getOrCreateProvider calls of the app returned, in order

vars == <<kind, event, pc, locals, list, idx, calls, result, raised, exitCode, prior,
          constructs, provided>>

\* the construct tree is built when the app is synthesized, before any event
synth == <<constructs, provided>>

----------------------------------------------------------------------------
(* Bounds *)

MaxEntries == 2      \* entries the list calls of one Delete return in total
MaxThingArns == 2    \* length of ThingArnList
MaxRetries == 1      \* times one Create event is delivered again
MaxDeclarations == 3 \* custom resource declarations of the app

----------------------------------------------------------------------------
(* Values *)

Undefined == "undefined"
NoResult == [PhysicalResourceId |-> "<none>", Data |-> <<>>]
NoError == "<none>"
NoPrior == <<>>

RoleAlias == "role-alias"
ThingCertPolicy == "thing-cert-policy"
ThingGroup == "thing-group"
GreengrassV2 == "greengrass-v2-deployment"
Kinds == {RoleAlias, ThingCertPolicy, ThingGroup, GreengrassV2}

RequestTypes == {"Create", "Update", "Delete", "Replace"}
PhysicalIds == {"", "id1"}
\* process.exitCode = 1 (JavaScript values are written in their string form)
ExitFailure == "1"

\* JavaScript booleans
JsTrue == "true"
JsFalse == "false"
FailCreateValues == {Undefined, JsTrue, JsFalse}

\* `${x}` of a template literal: undefined prints as "undefined"
Str(x) == x

\* JavaScript truthiness of the values FailCreate takes
Truthy(x) == x \notin {Undefined, JsFalse, ""}

\* x ?? y
Nullish(x, y) == IF x = Undefined THEN y ELSE x

Name(prefix, i) == prefix \o ToString(i)
Names(prefix, n) == [i \in 1..n |-> Name(prefix, i)]

----------------------------------------------------------------------------
(* Events.  ResourceProperties are the properties the constructs pass to    *)
(* CustomResource, plus FailCreate and the fields the handlers read that    *)
(* the constructs do not pass (CertificateArn, DeploymentId), which are     *)
(* undefined in the event.                                                  *)

RoleAliasProperties ==
    [IotRoleAliasName : {"alias1"}, IamRoleArn : {"arn:role1"},
     FailCreate : FailCreateValues]

ThingCertPolicyProperties ==
    [StackName : {"stack1"}, ThingName : {"thing1"}, IotPolicy : {"doc1"},
     IotPolicyName : {"policy1"}, CertificateArn : {Undefined},
     FailCreate : FailCreateValues]

ThingArnLists == {Names("arn:thing", n) : n \in 0..MaxThingArns}

ThingGroupProperties ==
    [ThingGroupName : {"group1"}, ThingGroupDescription : {"desc1"},
     ThingArnList : ThingArnLists, FailCreate : FailCreateValues]

GreengrassV2Properties ==
    [TargetArn : {"arn:target1"}, DeploymentName : {"deploy1"},
     Components : {"components1"}, DeploymentId : {Undefined},
     FailCreate : FailCreateValues]

Properties(k) ==
    CASE k = RoleAlias -> RoleAliasProperties
      [] k = ThingCertPolicy -> ThingCertPolicyProperties
      [] k = ThingGroup -> ThingGroupProperties
      [] k = GreengrassV2 -> GreengrassV2Properties

\* A Create event carries no PhysicalResourceId; Update and Delete carry one.
\* FailCreate is read by onCreate only; it varies in the Create and Update events.
Events(k) ==
    [RequestType : {"Create"}, PhysicalResourceId : {Undefined},
     ResourceProperties : Properties(k)]
    \cup
    [RequestType : {"Update"}, PhysicalResourceId : PhysicalIds,
     ResourceProperties : Properties(k)]
    \cup
    [RequestType : RequestTypes \ {"Create", "Update"}, PhysicalResourceId : PhysicalIds,
     ResourceProperties : {p \in Properties(k) : p.FailCreate = Undefined}]

----------------------------------------------------------------------------
(* Calls and results *)

Ok == "ok"
AlreadyExists == "ResourceAlreadyExistsException"
Failure == "Error"

\* outcomes of a call that creates a named resource, and of any other call
NamedOutcomes == {Ok, AlreadyExists, Failure}
Outcomes == {Ok, Failure}

Call(cmd, input, outcome, resp) ==
    [cmd |-> cmd, input |-> input, outcome |-> outcome, resp |-> resp]

EmptyData == [k \in {} |-> Undefined]

\* let physical_resource_id; without the initial ''
InitLocals_unset ==
    [physical_resource_id |-> Undefined, thing_arn |-> Undefined,
     certificate_arn |-> Undefined, certificate_pem |-> Undefined,
     private_key |-> Undefined, policy_arn |-> Undefined,
     data_ats_endpoint_address |-> Undefined,
     role_alias_arn |-> Undefined, group_arn |-> Undefined,
     group_id |-> Undefined]

InitLocals ==
    [physical_resource_id |-> "", thing_arn |-> Undefined,
     certificate_arn |-> Undefined, certificate_pem |-> Undefined,
     private_key |-> Undefined, policy_arn |-> Undefined,
     data_ats_endpoint_address |-> Undefined,
     role_alias_arn |-> Undefined, group_arn |-> Undefined,
     group_id |-> Undefined]

Init ==
    /\ kind = RoleAlias
    /\ event = [RequestType |-> "Create", PhysicalResourceId |-> Undefined,
                ResourceProperties |-> CHOOSE p \in RoleAliasProperties : p.FailCreate = Undefined]
    /\ pc = "idle"
    /\ locals = InitLocals
    /\ list = <<>>
    /\ idx = 0
    /\ calls = <<>>
    /\ result = NoResult
    /\ raised = NoError
    /\ exitCode = Undefined
    /\ prior = NoPrior
    /\ constructs = {}
    /\ provided = <<>>

\* the async function returns r
Return(r) == /\ result' = r
             /\ pc' = "done"
             /\ raised' = raised
             /\ UNCHANGED synth

\* the async function throws e
Throw(e) == /\ raised' = e
            /\ pc' = "done"
            /\ result' = result
            /\ UNCHANGED synth

Goto(l) == /\ pc' = l
           /\ UNCHANGED <<result, raised>>
           /\ UNCHANGED synth

Issue(c) == calls' = Append(calls, c)

----------------------------------------------------------------------------
(* handler: the switch on event.RequestType (the same in the four modules) *)

\* a switch whose default branch falls into the Delete case
Dispatch_default_delete(requestType) ==
    CASE requestType = "Create" -> "onCreate"
      [] requestType = "Update" -> "onUpdate"
      [] OTHER -> "onDelete"

Dispatch(requestType) ==
    CASE requestType = "Create" -> "onCreate"
      [] requestType = "Update" -> "onUpdate"
      [] requestType = "Delete" -> "onDelete"
      [] OTHER -> "throw"

handler(k, ev) ==
    /\ pc = "idle"
    /\ kind' = k
    /\ event' = ev
    /\ locals' = InitLocals
    /\ list' = <<>>
    /\ idx' = 0
    /\ calls' = <<>>
    /\ prior' = NoPrior
    /\ UNCHANGED exitCode
    /\ UNCHANGED synth
    /\ IF Dispatch(ev.RequestType) = "throw"
         THEN /\ raised' = "Invalid request type"
              /\ result' = NoResult
              /\ pc' = "done"
         ELSE /\ raised' = NoError
              /\ result' = NoResult
              /\ pc' = Dispatch(ev.RequestType)

FailCreateRequested_never(props) == FALSE

\* if (event.ResourceProperties.FailCreate ?? false)
FailCreateRequested(props) == Truthy(Nullish(props.FailCreate, JsFalse))

FirstCreateStep(k) ==
    CASE k = RoleAlias -> "CreateRoleAlias"
      [] k = ThingCertPolicy -> "CreateThing"
      [] k = ThingGroup -> "CreateThingGroup"
      [] k = GreengrassV2 -> "CreateDeployment"

\* an onDelete of the bundle without the block that deletes the parameters
FirstDeleteStep_skip_secrets(k) ==
    CASE k = RoleAlias -> "DeleteRoleAlias"
      [] k = ThingCertPolicy -> "ListPolicyVersions"
      [] k = ThingGroup -> "DeleteThingGroup"
      [] k = GreengrassV2 -> "CancelDeployment"

FirstDeleteStep(k) ==
    CASE k = RoleAlias -> "DeleteRoleAlias"
      [] k = ThingCertPolicy -> "DeleteParameters"
      [] k = ThingGroup -> "DeleteThingGroup"
      [] k = GreengrassV2 -> "CancelDeployment"

\* onCreate up to its first await
onCreate ==
    /\ pc = "onCreate"
    /\ IF FailCreateRequested(event.ResourceProperties)
         THEN Throw("Create failure requested, logging")
         ELSE Goto(FirstCreateStep(kind))
    /\ UNCHANGED <<kind, event, locals, list, idx, calls, exitCode, prior>>

onUpdateResult_fresh(ev) == [PhysicalResourceId |-> "", Data |-> EmptyData]

onUpdateResult(ev) == [PhysicalResourceId |-> ev.PhysicalResourceId, Data |-> EmptyData]

onUpdate ==
    /\ pc = "onUpdate"
    /\ Return(onUpdateResult(event))
    /\ UNCHANGED <<kind, event, locals, list, idx, calls, exitCode, prior>>

\* onDelete up to its first await
onDelete ==
    /\ pc = "onDelete"
    /\ Goto(FirstDeleteStep(kind))
    /\ UNCHANGED <<kind, event, locals, list, idx, calls, exitCode, prior>>

onDeleteResult_props(ev) ==
    [PhysicalResourceId |-> ev.PhysicalResourceId, Data |-> ev.ResourceProperties]

onDeleteResult(ev) == [PhysicalResourceId |-> ev.PhysicalResourceId, Data |-> EmptyData]

----------------------------------------------------------------------------
(* role-alias-fn.ts *)

CreateRoleAlias ==
    /\ kind = RoleAlias /\ pc = "CreateRoleAlias"
    /\ LET p == event.ResourceProperties IN
       \E o \in NamedOutcomes :
         /\ Issue(Call("CreateRoleAlias", <<p.IotRoleAliasName, p.IamRoleArn>>, o, <<>>))
         /\ IF o = Ok
              THEN /\ Return([PhysicalResourceId |-> p.IotRoleAliasName,
                              Data |-> [RoleAliasArn |-> "arn:rolealias/" \o p.IotRoleAliasName]])
                   /\ UNCHANGED exitCode
              ELSE /\ Return([PhysicalResourceId |-> "",
                              Data |-> [RoleAliasArn |-> Undefined]])
                   /\ exitCode' = ExitFailure
    /\ UNCHANGED <<kind, event, locals, list, idx, prior>>

\* an onDelete that also deletes the role behind the alias
DeleteRoleAlias_and_role ==
    /\ kind = RoleAlias /\ pc = "DeleteRoleAlias"
    /\ \E o \in Outcomes :
         calls' = calls \o
             <<Call("DeleteRoleAlias", <<event.ResourceProperties.IotRoleAliasName>>, o, <<>>),
               Call("DeleteRole", <<event.ResourceProperties.IamRoleArn>>, o, <<>>)>>
    /\ Return(onDeleteResult(event))
    /\ UNCHANGED <<kind, event, locals, list, idx, exitCode, prior>>

DeleteRoleAlias ==
    /\ kind = RoleAlias /\ pc = "DeleteRoleAlias"
    /\ \E o \in Outcomes :
         Issue(Call("DeleteRoleAlias", <<event.ResourceProperties.IotRoleAliasName>>, o, <<>>))
    /\ Return(onDeleteResult(event))
    /\ UNCHANGED <<kind, event, locals, list, idx, exitCode, prior>>

----------------------------------------------------------------------------
(* greengrass-v2-deployment-fn.ts *)

DeploymentIds == {"dep1", "dep2"}

CreateDeployment ==
    /\ kind = GreengrassV2 /\ pc = "CreateDeployment"
    /\ LET p == event.ResourceProperties IN
       \/ \E d \in DeploymentIds :
            /\ Issue(Call("CreateDeployment", <<p.TargetArn, p.DeploymentName, p.Components>>, Ok, <<d>>))
            /\ Return([PhysicalResourceId |-> d,
                       Data |-> [DeploymentId |-> d, IotJobId |-> "job:" \o d,
                                 IotJobArn |-> "arn:job/" \o d]])
       \/ /\ Issue(Call("CreateDeployment", <<p.TargetArn, p.DeploymentName, p.Components>>, Failure, <<>>))
          /\ Throw("Error calling create_deployment for target " \o Str(p.TargetArn))
    /\ UNCHANGED <<kind, event, locals, list, idx, exitCode, prior>>

CancelDeployment ==
    /\ kind = GreengrassV2 /\ pc = "CancelDeployment"
    /\ \E o \in Outcomes :
         Issue(Call("CancelDeployment", <<event.ResourceProperties.DeploymentId>>, o, <<>>))
    /\ Return(onDeleteResult(event))
    /\ UNCHANGED <<kind, event, locals, list, idx, exitCode, prior>>

----------------------------------------------------------------------------
(* thing-group-fn.ts *)

\* response of CreateThingGroup
thingGroupArn(name) == "arn:thinggroup/" \o name
thingGroupId(name) == "id:" \o name

thingGroupResult_name(p, l) ==
    [PhysicalResourceId |-> p.ThingGroupName,
     Data |-> [ThingGroupName |-> p.ThingGroupName,
               ThingGroupArn |-> l.group_arn]]

thingGroupResult(p, l) ==
    [PhysicalResourceId |-> l.physical_resource_id,
     Data |-> [ThingGroupName |-> p.ThingGroupName,
               ThingGroupArn |-> l.group_arn,
               ThingGroupId |-> l.group_id]]

CreateThingGroup ==
    /\ kind = ThingGroup /\ pc = "CreateThingGroup"
    /\ LET p == event.ResourceProperties IN
       \E o \in NamedOutcomes :
         LET l == IF o = Ok
                    THEN [locals EXCEPT !.group_arn = thingGroupArn(p.ThingGroupName),
                                        !.group_id = thingGroupId(p.ThingGroupName),
                                        !.physical_resource_id = thingGroupId(p.ThingGroupName)]
                    ELSE locals
         IN /\ Issue(Call("CreateThingGroup", <<p.ThingGroupName, p.ThingGroupDescription>>, o, <<>>))
            /\ locals' = l
            /\ exitCode' = IF o = Ok THEN exitCode ELSE ExitFailure
            /\ list' = p.ThingArnList
            /\ IF Len(p.ThingArnList) = 0
                 THEN Return(thingGroupResult(p, l)) /\ idx' = 0
                 ELSE Goto("AddThingToThingGroup") /\ idx' = 1
    /\ UNCHANGED <<kind, event, prior>>

\* an add-things block whose catch removes the group it has just created
AddThingToThingGroup_rollback ==
    /\ kind = ThingGroup /\ pc = "AddThingToThingGroup"
    /\ LET p == event.ResourceProperties IN
       \E o \in Outcomes :
         /\ calls' = IF o = Ok
                       THEN Append(calls, Call("AddThingToThingGroup",
                                               <<p.ThingGroupName, list[idx]>>, o, <<>>))
                       ELSE calls \o
                            <<Call("AddThingToThingGroup", <<p.ThingGroupName, list[idx]>>, o, <<>>),
                              Call("DeleteThingGroup", <<p.ThingGroupName>>, Ok, <<>>)>>
         /\ exitCode' = IF o = Ok THEN exitCode ELSE ExitFailure
         /\ IF o = Ok /\ idx < Len(list)
              THEN Goto("AddThingToThingGroup") /\ idx' = idx + 1
              ELSE Return(thingGroupResult(p, locals)) /\ idx' = 0
    /\ UNCHANGED <<kind, event, locals, list, prior>>

\* an add-things loop with the try block inside it: the loop goes on after a failure
AddThingToThingGroup_inner_try ==
    /\ kind = ThingGroup /\ pc = "AddThingToThingGroup"
    /\ LET p == event.ResourceProperties IN
       \E o \in Outcomes :
         /\ Issue(Call("AddThingToThingGroup", <<p.ThingGroupName, list[idx]>>, o, <<>>))
         /\ exitCode' = IF o = Ok THEN exitCode ELSE ExitFailure
         /\ IF idx < Len(list)
              THEN Goto("AddThingToThingGroup") /\ idx' = idx + 1
              ELSE Return(thingGroupResult(p, locals)) /\ idx' = 0
    /\ UNCHANGED <<kind, event, locals, list, prior>>

AddThingToThingGroup ==
    /\ kind = ThingGroup /\ pc = "AddThingToThingGroup"
    /\ LET p == event.ResourceProperties IN
       \E o \in Outcomes :
         /\ Issue(Call("AddThingToThingGroup", <<p.ThingGroupName, list[idx]>>, o, <<>>))
         /\ exitCode' = IF o = Ok THEN exitCode ELSE ExitFailure
         /\ IF o = Ok /\ idx < Len(list)
              THEN Goto("AddThingToThingGroup") /\ idx' = idx + 1
              ELSE Return(thingGroupResult(p, locals)) /\ idx' = 0
    /\ UNCHANGED <<kind, event, locals, list, prior>>

DeleteThingGroup ==
    /\ kind = ThingGroup /\ pc = "DeleteThingGroup"
    /\ \E o \in Outcomes :
         Issue(Call("DeleteThingGroup", <<event.ResourceProperties.ThingGroupName>>, o, <<>>))
    /\ Return(onDeleteResult(event))
    /\ UNCHANGED <<kind, event, locals, list, idx, exitCode, prior>>

----------------------------------------------------------------------------
(* thing-cert-policy-fn.ts: onCreate *)

CertificateIds == {"cert1", "cert2"}
\* a catch block that leaves the endpoint address unset
Sentinel_undefined == Undefined

Sentinel == "stack_error: see log files"

\* `/${stack_name}/${thing_name}/private_key`
ParameterName(stack_name, thing_name, suffix) ==
    "/" \o Str(stack_name) \o "/" \o Str(thing_name) \o "/" \o suffix

parameter_private_key(p) == ParameterName(p.StackName, p.ThingName, "private_key")
parameter_certificate_pem(p) == ParameterName(p.StackName, p.ThingName, "certificate_pem")

CreateThing ==
    /\ kind = ThingCertPolicy /\ pc = "CreateThing"
    /\ LET p == event.ResourceProperties IN
       \E o \in NamedOutcomes :
         /\ Issue(Call("CreateThing", <<p.ThingName>>, o, <<>>))
         /\ locals' = IF o = Ok
                        THEN [locals EXCEPT !.thing_arn = "arn:thing/" \o p.ThingName]
                        ELSE locals
         /\ exitCode' = IF o = Ok THEN exitCode ELSE ExitFailure
    /\ Goto("CreateKeysAndCertificate")
    /\ UNCHANGED <<kind, event, list, idx, prior>>

CreateKeysAndCertificate ==
    /\ kind = ThingCertPolicy /\ pc = "CreateKeysAndCertificate"
    /\ \/ \E c \in CertificateIds :
            /\ Issue(Call("CreateKeysAndCertificate", <<JsTrue>>, Ok, <<c>>))
            /\ locals' = [locals EXCEPT !.certificate_arn = "arn:cert/" \o c,
                                        !.certificate_pem = "pem:" \o c,
                                        !.physical_resource_id = c,
                                        !.private_key = "key:" \o c]
            /\ UNCHANGED exitCode
       \/ /\ Issue(Call("CreateKeysAndCertificate", <<JsTrue>>, Failure, <<>>))
          /\ exitCode' = ExitFailure
          /\ UNCHANGED locals
    /\ Goto("CreatePolicy")
    /\ UNCHANGED <<kind, event, list, idx, prior>>

CreatePolicy ==
    /\ kind = ThingCertPolicy /\ pc = "CreatePolicy"
    /\ LET p == event.ResourceProperties IN
       \E o \in NamedOutcomes :
         /\ Issue(Call("CreatePolicy", <<p.IotPolicy, p.IotPolicyName>>, o, <<>>))
         /\ locals' = IF o = Ok
                        THEN [locals EXCEPT !.policy_arn = "arn:policy/" \o p.IotPolicyName]
                        ELSE locals
         /\ exitCode' = IF o = Ok THEN exitCode ELSE ExitFailure
    /\ Goto("AttachPolicy")
    /\ UNCHANGED <<kind, event, list, idx, prior>>

AttachPolicy ==
    /\ kind = ThingCertPolicy /\ pc = "AttachPolicy"
    /\ \E o \in Outcomes :
         /\ Issue(Call("AttachPolicy",
                       <<event.ResourceProperties.IotPolicyName, locals.certificate_arn>>, o, <<>>))
         /\ exitCode' = IF o = Ok THEN exitCode ELSE ExitFailure
    /\ Goto("AttachThingPrincipal")
    /\ UNCHANGED <<kind, event, locals, list, idx, prior>>

AttachThingPrincipal ==
    /\ kind = ThingCertPolicy /\ pc = "AttachThingPrincipal"
    /\ \E o \in Outcomes :
         /\ Issue(Call("AttachThingPrincipal",
                       <<event.ResourceProperties.ThingName, locals.certificate_arn>>, o, <<>>))
         /\ exitCode' = IF o = Ok THEN exitCode ELSE ExitFailure
    /\ Goto("PutParameterPrivateKey")
    /\ UNCHANGED <<kind, event, locals, list, idx, prior>>

\* first await of the try block that stores both parameters
PutParameterPrivateKey ==
    /\ kind = ThingCertPolicy /\ pc = "PutParameterPrivateKey"
    /\ \E o \in Outcomes :
         /\ Issue(Call("PutParameter",
                       <<parameter_private_key(event.ResourceProperties), locals.private_key,
                         "SecureString">>, o, <<>>))
         /\ exitCode' = IF o = Ok THEN exitCode ELSE ExitFailure
         /\ IF o = Ok THEN Goto("PutParameterCertificatePem")
                      ELSE Goto("DescribeEndpointDataAts")
    /\ UNCHANGED <<kind, event, locals, list, idx, prior>>

PutParameterCertificatePem ==
    /\ kind = ThingCertPolicy /\ pc = "PutParameterCertificatePem"
    /\ \E o \in Outcomes :
         /\ Issue(Call("PutParameter",
                       <<parameter_certificate_pem(event.ResourceProperties), locals.certificate_pem,
                         "String">>, o, <<>>))
         /\ exitCode' = IF o = Ok THEN exitCode ELSE ExitFailure
    /\ Goto("DescribeEndpointDataAts")
    /\ UNCHANGED <<kind, event, locals, list, idx, prior>>

DescribeEndpointDataAts ==
    /\ kind = ThingCertPolicy /\ pc = "DescribeEndpointDataAts"
    /\ \E o \in Outcomes :
         /\ Issue(Call("DescribeEndpoint", <<"iot:Data-ATS">>, o, <<>>))
         /\ locals' = [locals EXCEPT !.data_ats_endpoint_address =
                          IF o = Ok THEN "data-ats.endpoint" ELSE Sentinel]
    /\ Goto("DescribeEndpointCredentialProvider")
    /\ UNCHANGED <<kind, event, list, idx, exitCode, prior>>

\* a result that names the certificate by its arn
thingCertPolicyResult_arn(p, l, credential_provider_endpoint_address) ==
    [PhysicalResourceId |-> l.certificate_arn,
     Data |-> [ThingArn |-> l.thing_arn,
               ThingName |-> p.ThingName,
               CertificateArn |-> l.certificate_arn,
               IotPolicyArn |-> l.policy_arn,
               PrivateKeySecretParameter |-> parameter_private_key(p),
               CertificatePemParameter |-> parameter_certificate_pem(p),
               DataAtsEndpointAddress |-> l.data_ats_endpoint_address,
               CredentialProviderEndpointAddress |-> credential_provider_endpoint_address]]

thingCertPolicyResult(p, l, credential_provider_endpoint_address) ==
    [PhysicalResourceId |-> l.physical_resource_id,
     Data |-> [ThingArn |-> l.thing_arn,
               ThingName |-> p.ThingName,
               CertificateArn |-> l.certificate_arn,
               IotPolicyArn |-> l.policy_arn,
               PrivateKeySecretParameter |-> parameter_private_key(p),
               CertificatePemParameter |-> parameter_certificate_pem(p),
               DataAtsEndpointAddress |-> l.data_ats_endpoint_address,
               CredentialProviderEndpointAddress |-> credential_provider_endpoint_address]]

DescribeEndpointCredentialProvider ==
    /\ kind = ThingCertPolicy /\ pc = "DescribeEndpointCredentialProvider"
    /\ \E o \in Outcomes :
         /\ Issue(Call("DescribeEndpoint", <<"iot:CredentialProvider">>, o, <<>>))
         /\ Return(thingCertPolicyResult(event.ResourceProperties, locals,
                      IF o = Ok THEN "credentials.endpoint" ELSE Sentinel))
    /\ UNCHANGED <<kind, event, locals, list, idx, exitCode, prior>>

----------------------------------------------------------------------------
(* thing-cert-policy-fn.ts: onDelete *)

ThingNames == {"thing1", "thing2"}

\* entries the list calls issued so far have returned
RECURSIVE Listed(_)
Listed(log) ==
    IF log = <<>> THEN 0
    ELSE Len(log[Len(log)].resp) + Listed(SubSeq(log, 1, Len(log) - 1))

\* how many entries the next list call may return
Room == MaxEntries - Listed(calls)

\* responses of the list calls
PolicyVersionLists ==
    UNION {{[i \in 1..n |-> [versionId |-> ToString(i), isDefaultVersion |-> f[i]]] :
              f \in [1..n -> BOOLEAN]} : n \in 0..Room}
TargetLists == {Names("target", n) : n \in 0..Room}
ThingLists ==
    UNION {{s \in [1..n -> ThingNames] : \A i, j \in 1..n : s[i] = s[j] => i = j} :
              n \in 0..Room}
PolicyLists == {Names("policy", n) : n \in 0..Room}
PrincipalLists == {Names("principal", n) : n \in 0..Room}

\* a catch block that throws the error on
deleteCatch_rethrow(next) == Throw("Error")

\* a catch block that ends onDelete
deleteCatch_return(next) == Return([PhysicalResourceId |-> event.PhysicalResourceId, Data |-> EmptyData])

\* catch (error) { console.error(...) }: execution goes on after the try block
deleteCatch(next) == Goto(next)

\* a for..of loop over a response list, one await per element: the loop
\* is entered at element i if there is one, and left otherwise
Loop(l, i, body, after) ==
    IF i <= Len(l) THEN Goto(body) /\ idx' = i
                   ELSE Goto(after) /\ idx' = 0

\* a loop without the isDefaultVersion test: every listed version is deleted
NextNonDefault_every(l, i) == i

\* first version at or after i that is not the default version (0: none)
NextNonDefault(l, i) ==
    LET js == {j \in i..Len(l) : ~l[j].isDefaultVersion}
    IN IF js = {} THEN Len(l) + 1 ELSE CHOOSE j \in js : \A k \in js : j <= k

\* onDelete computes the two parameter names again, from the properties of its
\* own event: `/${thing_name}/${stack_name}/...` would miss what onCreate wrote
onDelete_parameter_private_key_swapped(p) ==
    "/" \o Str(p.ThingName) \o "/" \o Str(p.StackName) \o "/private_key"

onDelete_parameter_private_key(p) ==
    "/" \o Str(p.StackName) \o "/" \o Str(p.ThingName) \o "/private_key"

onDelete_parameter_certificate_pem(p) ==
    "/" \o Str(p.StackName) \o "/" \o Str(p.ThingName) \o "/certificate_pem"

\* an onDelete that deletes the policy before pruning its versions and
\* detaching its targets
DeleteParameters_then_policy ==
    /\ kind = ThingCertPolicy /\ pc = "DeleteParameters"
    /\ LET p == event.ResourceProperties IN
       \E o \in Outcomes :
         /\ calls' = calls \o
                <<Call("DeleteParameters",
                       <<onDelete_parameter_private_key(p),
                         onDelete_parameter_certificate_pem(p)>>, o, <<>>),
                  Call("DeletePolicy", <<p.IotPolicyName>>, o, <<>>)>>
         /\ Goto("ListPolicyVersions")
    /\ UNCHANGED <<kind, event, locals, list, idx, exitCode, prior>>

DeleteParameters ==
    /\ kind = ThingCertPolicy /\ pc = "DeleteParameters"
    /\ LET p == event.ResourceProperties IN
       \E o \in Outcomes :
         /\ Issue(Call("DeleteParameters",
                       <<onDelete_parameter_private_key(p),
                         onDelete_parameter_certificate_pem(p)>>, o, <<>>))
         /\ IF o = Ok THEN Goto("ListPolicyVersions")
                      ELSE deleteCatch("ListPolicyVersions")
    /\ UNCHANGED <<kind, event, locals, list, idx, exitCode, prior>>

ListPolicyVersions ==
    /\ kind = ThingCertPolicy /\ pc = "ListPolicyVersions"
    /\ LET p == event.ResourceProperties IN
       \/ \E l \in PolicyVersionLists :
            /\ Issue(Call("ListPolicyVersions", <<p.IotPolicyName>>, Ok, l))
            /\ list' = l
            /\ Loop(l, NextNonDefault(l, 1), "DeletePolicyVersion", "ListTargetsForPolicy")
       \/ /\ Issue(Call("ListPolicyVersions", <<p.IotPolicyName>>, Failure, <<>>))
          /\ deleteCatch("ListTargetsForPolicy")
          /\ UNCHANGED <<list, idx>>
    /\ UNCHANGED <<kind, event, locals, exitCode, prior>>

DeletePolicyVersion ==
    /\ kind = ThingCertPolicy /\ pc = "DeletePolicyVersion"
    /\ LET p == event.ResourceProperties IN
       \E o \in Outcomes :
         /\ Issue(Call("DeletePolicyVersion", <<p.IotPolicyName, list[idx].versionId>>, o, <<>>))
         /\ IF o = Ok
              THEN Loop(list, NextNonDefault(list, idx + 1),
                        "DeletePolicyVersion", "ListTargetsForPolicy")
              ELSE deleteCatch("ListTargetsForPolicy") /\ idx' = 0
    /\ UNCHANGED <<kind, event, locals, list, exitCode, prior>>

ListTargetsForPolicy ==
    /\ kind = ThingCertPolicy /\ pc = "ListTargetsForPolicy"
    /\ LET p == event.ResourceProperties IN
       \/ \E l \in TargetLists :
            /\ Issue(Call("ListTargetsForPolicy", <<p.IotPolicyName>>, Ok, l))
            /\ list' = l
            /\ Loop(l, 1, "DetachPolicyTarget", "DeletePolicy")
       \/ /\ Issue(Call("ListTargetsForPolicy", <<p.IotPolicyName>>, Failure, <<>>))
          /\ deleteCatch("DeletePolicy")
          /\ UNCHANGED <<list, idx>>
    /\ UNCHANGED <<kind, event, locals, exitCode, prior>>

DetachPolicyTarget ==
    /\ kind = ThingCertPolicy /\ pc = "DetachPolicyTarget"
    /\ LET p == event.ResourceProperties IN
       \E o \in Outcomes :
         /\ Issue(Call("DetachPolicy", <<p.IotPolicyName, list[idx]>>, o, <<>>))
         /\ IF o = Ok
              THEN Loop(list, idx + 1, "DetachPolicyTarget", "DeletePolicy")
              ELSE deleteCatch("DeletePolicy") /\ idx' = 0
    /\ UNCHANGED <<kind, event, locals, list, exitCode, prior>>

DeletePolicy ==
    /\ kind = ThingCertPolicy /\ pc = "DeletePolicy"
    /\ LET p == event.ResourceProperties IN
       \E o \in Outcomes :
         /\ Issue(Call("DeletePolicy", <<p.IotPolicyName>>, o, <<>>))
         /\ IF o = Ok THEN Goto("ListPrincipalThings")
                      ELSE deleteCatch("ListPrincipalThings")
    /\ UNCHANGED <<kind, event, locals, list, idx, exitCode, prior>>

ListPrincipalThings ==
    /\ kind = ThingCertPolicy /\ pc = "ListPrincipalThings"
    /\ LET p == event.ResourceProperties IN
       \/ \E l \in ThingLists :
            /\ Issue(Call("ListPrincipalThings", <<p.CertificateArn>>, Ok, l))
            /\ list' = l
            /\ Loop(l, 1, "DetachThingPrincipalCertificate", "ListAttachedPolicies")
       \/ /\ Issue(Call("ListPrincipalThings", <<p.CertificateArn>>, Failure, <<>>))
          /\ deleteCatch("UpdateCertificate")
          /\ UNCHANGED <<list, idx>>
    /\ UNCHANGED <<kind, event, locals, exitCode, prior>>

\* the loop variable `thing` is not used: the input names the event's ThingName
DetachThingPrincipalCertificate ==
    /\ kind = ThingCertPolicy /\ pc = "DetachThingPrincipalCertificate"
    /\ LET p == event.ResourceProperties IN
       \E o \in Outcomes :
         /\ Issue(Call("DetachThingPrincipal", <<p.ThingName, p.CertificateArn>>, o, <<>>))
         /\ IF o = Ok
              THEN Loop(list, idx + 1, "DetachThingPrincipalCertificate", "ListAttachedPolicies")
              ELSE deleteCatch("UpdateCertificate") /\ idx' = 0
    /\ UNCHANGED <<kind, event, locals, list, exitCode, prior>>

ListAttachedPolicies ==
    /\ kind = ThingCertPolicy /\ pc = "ListAttachedPolicies"
    /\ LET p == event.ResourceProperties IN
       \/ \E l \in PolicyLists :
            /\ Issue(Call("ListAttachedPolicies", <<p.CertificateArn>>, Ok, l))
            /\ list' = l
            /\ Loop(l, 1, "DetachPolicyCertificate", "UpdateCertificate")
       \/ /\ Issue(Call("ListAttachedPolicies", <<p.CertificateArn>>, Failure, <<>>))
          /\ deleteCatch("UpdateCertificate")
          /\ UNCHANGED <<list, idx>>
    /\ UNCHANGED <<kind, event, locals, exitCode, prior>>

DetachPolicyCertificate ==
    /\ kind = ThingCertPolicy /\ pc = "DetachPolicyCertificate"
    /\ LET p == event.ResourceProperties IN
       \E o \in Outcomes :
         /\ Issue(Call("DetachPolicy", <<list[idx], p.CertificateArn>>, o, <<>>))
         /\ IF o = Ok
              THEN Loop(list, idx + 1, "DetachPolicyCertificate", "UpdateCertificate")
              ELSE deleteCatch("UpdateCertificate") /\ idx' = 0
    /\ UNCHANGED <<kind, event, locals, list, exitCode, prior>>

\* a revoke in a try block of its own: DeleteCertificate follows whatever it did
UpdateCertificate_own_try ==
    /\ kind = ThingCertPolicy /\ pc = "UpdateCertificate"
    /\ \E o \in Outcomes :
         /\ Issue(Call("UpdateCertificate", <<event.PhysicalResourceId, "REVOKED">>, o, <<>>))
         /\ Goto("DeleteCertificate")
    /\ UNCHANGED <<kind, event, locals, list, idx, exitCode, prior>>

UpdateCertificate ==
    /\ kind = ThingCertPolicy /\ pc = "UpdateCertificate"
    /\ \E o \in Outcomes :
         /\ Issue(Call("UpdateCertificate", <<event.PhysicalResourceId, "REVOKED">>, o, <<>>))
         /\ IF o = Ok THEN Goto("DeleteCertificate")
                      ELSE deleteCatch("ListThingPrincipals")
    /\ UNCHANGED <<kind, event, locals, list, idx, exitCode, prior>>

DeleteCertificate ==
    /\ kind = ThingCertPolicy /\ pc = "DeleteCertificate"
    /\ \E o \in Outcomes :
         /\ Issue(Call("DeleteCertificate", <<event.PhysicalResourceId>>, o, <<>>))
         /\ IF o = Ok THEN Goto("ListThingPrincipals")
                      ELSE deleteCatch("ListThingPrincipals")
    /\ UNCHANGED <<kind, event, locals, list, idx, exitCode, prior>>

ListThingPrincipals ==
    /\ kind = ThingCertPolicy /\ pc = "ListThingPrincipals"
    /\ LET p == event.ResourceProperties IN
       \/ \E l \in PrincipalLists :
            /\ Issue(Call("ListThingPrincipals", <<p.ThingName>>, Ok, l))
            /\ list' = l
            /\ Loop(l, 1, "DetachThingPrincipal", "DeleteThing")
       \/ /\ Issue(Call("ListThingPrincipals", <<p.ThingName>>, Failure, <<>>))
          /\ deleteCatch("DeleteThing")
          /\ UNCHANGED <<list, idx>>
    /\ UNCHANGED <<kind, event, locals, exitCode, prior>>

DetachThingPrincipal ==
    /\ kind = ThingCertPolicy /\ pc = "DetachThingPrincipal"
    /\ LET p == event.ResourceProperties IN
       \E o \in Outcomes :
         /\ Issue(Call("DetachThingPrincipal", <<p.ThingName, list[idx]>>, o, <<>>))
         /\ IF o = Ok
              THEN Loop(list, idx + 1, "DetachThingPrincipal", "DeleteThing")
              ELSE deleteCatch("DeleteThing") /\ idx' = 0
    /\ UNCHANGED <<kind, event, locals, list, exitCode, prior>>

DeleteThing ==
    /\ kind = ThingCertPolicy /\ pc = "DeleteThing"
    /\ \E o \in Outcomes :
         Issue(Call("DeleteThing", <<event.ResourceProperties.ThingName>>, o, <<>>))
    /\ Return(onDeleteResult(event))
    /\ UNCHANGED <<kind, event, locals, list, idx, exitCode, prior>>

----------------------------------------------------------------------------
(* Specifications *)

\* the invocation is over: the runtime has taken the promise's outcome and the
\* process waits for the next event; process.exitCode stays as it is
Respond ==
    /\ pc = "done"
    /\ pc' = "idle"
    /\ locals' = InitLocals
    /\ list' = <<>>
    /\ idx' = 0
    /\ calls' = <<>>
    /\ result' = NoResult
    /\ raised' = NoError
    /\ prior' = NoPrior
    /\ UNCHANGED <<kind, event, exitCode>>
    /\ UNCHANGED synth

\* the Lambda runtime delivers an event to the handler of one of the functions
Invoke == \E k \in Kinds : \E ev \in Events(k) : handler(k, ev)

Next ==
    \/ Invoke
    \/ Respond
    \/ onCreate
    \/ onUpdate
    \/ onDelete
    \/ CreateRoleAlias
    \/ DeleteRoleAlias
    \/ CreateDeployment
    \/ CancelDeployment
    \/ CreateThingGroup
    \/ AddThingToThingGroup
    \/ DeleteThingGroup
    \/ CreateThing
    \/ CreateKeysAndCertificate
    \/ CreatePolicy
    \/ AttachPolicy
    \/ AttachThingPrincipal
    \/ PutParameterPrivateKey
    \/ PutParameterCertificatePem
    \/ DescribeEndpointDataAts
    \/ DescribeEndpointCredentialProvider
    \/ DeleteParameters
    \/ ListPolicyVersions
    \/ DeletePolicyVersion
    \/ ListTargetsForPolicy
    \/ DetachPolicyTarget
    \/ DeletePolicy
    \/ ListPrincipalThings
    \/ DetachThingPrincipalCertificate
    \/ ListAttachedPolicies
    \/ DetachPolicyCertificate
    \/ UpdateCertificate
    \/ DeleteCertificate
    \/ ListThingPrincipals
    \/ DetachThingPrincipal
    \/ DeleteThing

Spec == Init /\ [][Next]_vars

\* A Create event that is delivered again with identical properties (the host
\* re-invokes the handler after a timeout): `prior` keeps what the earlier
\* deliveries returned.
AllOk(log) == \A i \in 1..Len(log) : log[i].outcome = Ok

Redeliver ==
    /\ pc = "done"
    /\ event.RequestType = "Create"
    /\ Len(prior) < MaxRetries
    /\ prior' = Append(prior, [result |-> result, raised |-> raised, clean |-> AllOk(calls)])
    /\ pc' = Dispatch(event.RequestType)
    /\ locals' = InitLocals
    /\ list' = <<>>
    /\ idx' = 0
    /\ calls' = <<>>
    /\ result' = NoResult
    /\ raised' = NoError
    /\ UNCHANGED <<kind, event, exitCode>>
    /\ UNCHANGED synth

InvokeCreate ==
    \E k \in Kinds : \E ev \in {e \in Events(k) : e.RequestType = "Create"} : handler(k, ev)

NextRetry ==
    \/ InvokeCreate
    \/ Redeliver
    \/ onCreate
    \/ CreateRoleAlias
    \/ CreateDeployment
    \/ CreateThingGroup
    \/ AddThingToThingGroup
    \/ CreateThing
    \/ CreateKeysAndCertificate
    \/ CreatePolicy
    \/ AttachPolicy
    \/ AttachThingPrincipal
    \/ PutParameterPrivateKey
    \/ PutParameterCertificatePem
    \/ DescribeEndpointDataAts
    \/ DescribeEndpointCredentialProvider

SpecRetry == Init /\ [][NextRetry]_vars

\* The life of one resource: CloudFormation delivers the Create event and, once
\* the Create has succeeded, the Delete event of the same resource, which
\* carries the ResourceProperties of the Create and the PhysicalResourceId it
\* returned.  `prior` keeps what the Create returned.
DeliverDelete ==
    /\ pc = "done"
    /\ event.RequestType = "Create"
    /\ raised = NoError
    /\ AllOk(calls)
    /\ prior = NoPrior
    /\ prior' = <<[result |-> result, raised |-> raised, clean |-> AllOk(calls)]>>
    /\ event' = [RequestType |-> "Delete",
                 PhysicalResourceId |-> result.PhysicalResourceId,
                 ResourceProperties |-> event.ResourceProperties]
    /\ pc' = Dispatch("Delete")
    /\ locals' = InitLocals
    /\ list' = <<>>
    /\ idx' = 0
    /\ calls' = <<>>
    /\ result' = NoResult
    /\ raised' = NoError
    /\ UNCHANGED <<kind, exitCode>>
    /\ UNCHANGED synth

NextLifecycle ==
    \/ InvokeCreate
    \/ DeliverDelete
    \/ onCreate
    \/ onDelete
    \/ CreateRoleAlias
    \/ DeleteRoleAlias
    \/ CreateDeployment
    \/ CancelDeployment
    \/ CreateThingGroup
    \/ AddThingToThingGroup
    \/ DeleteThingGroup
    \/ CreateThing
    \/ CreateKeysAndCertificate
    \/ CreatePolicy
    \/ AttachPolicy
    \/ AttachThingPrincipal
    \/ PutParameterPrivateKey
    \/ PutParameterCertificatePem
    \/ DescribeEndpointDataAts
    \/ DescribeEndpointCredentialProvider
    \/ DeleteParameters
    \/ ListPolicyVersions
    \/ DeletePolicyVersion
    \/ ListTargetsForPolicy
    \/ DetachPolicyTarget
    \/ DeletePolicy
    \/ ListPrincipalThings
    \/ DetachThingPrincipalCertificate
    \/ ListAttachedPolicies
    \/ DetachPolicyCertificate
    \/ UpdateCertificate
    \/ DeleteCertificate
    \/ ListThingPrincipals
    \/ DetachThingPrincipal
    \/ DeleteThing

SpecLifecycle == Init /\ [][NextLifecycle]_vars

\* CloudFormation keeps the PhysicalResourceId a Create returned and sends it
\* with every later Update or Delete event of the resource, together with the
\* resource's properties.
DeliverFollowUp ==
    /\ pc = "done"
    /\ event.RequestType = "Create"
    /\ raised = NoError
    /\ \E requestType \in {"Update", "Delete"} :
         /\ event' = [RequestType |-> requestType,
                      PhysicalResourceId |-> result.PhysicalResourceId,
                      ResourceProperties |-> event.ResourceProperties]
         /\ pc' = Dispatch(requestType)
    /\ locals' = InitLocals
    /\ list' = <<>>
    /\ idx' = 0
    /\ calls' = <<>>
    /\ result' = NoResult
    /\ raised' = NoError
    /\ UNCHANGED <<kind, exitCode, prior>>
    /\ UNCHANGED synth

NextFollowUp ==
    \/ InvokeCreate
    \/ DeliverFollowUp
    \/ onCreate
    \/ onUpdate
    \/ onDelete
    \/ CreateRoleAlias
    \/ DeleteRoleAlias
    \/ CreateDeployment
    \/ CancelDeployment
    \/ CreateThingGroup
    \/ AddThingToThingGroup
    \/ DeleteThingGroup
    \/ CreateThing
    \/ CreateKeysAndCertificate
    \/ CreatePolicy
    \/ AttachPolicy
    \/ AttachThingPrincipal
    \/ PutParameterPrivateKey
    \/ PutParameterCertificatePem
    \/ DescribeEndpointDataAts
    \/ DescribeEndpointCredentialProvider
    \/ DeleteParameters
    \/ ListPolicyVersions
    \/ DeletePolicyVersion
    \/ ListTargetsForPolicy
    \/ DetachPolicyTarget
    \/ DeletePolicy
    \/ ListPrincipalThings
    \/ DetachThingPrincipalCertificate
    \/ ListAttachedPolicies
    \/ DetachPolicyCertificate
    \/ UpdateCertificate
    \/ DeleteCertificate
    \/ ListThingPrincipals
    \/ DetachThingPrincipal
    \/ DeleteThing

SpecFollowUp == Init /\ [][NextFollowUp]_vars

\* The life of one Device Identity Bundle under any stack name and thing name:
\* the Create event of a bundle with those names, then the Delete event of the
\* same resource.
StackNames == {"stack1", "stack2"}

NamedProperties ==
    [StackName : StackNames, ThingName : ThingNames, IotPolicy : {"doc1"},
     IotPolicyName : {"policy1"}, CertificateArn : {Undefined},
     FailCreate : {Undefined}]

InvokeNamed ==
    \E p \in NamedProperties :
        handler(ThingCertPolicy, [RequestType |-> "Create", PhysicalResourceId |-> Undefined,
                                  ResourceProperties |-> p])

NextNames ==
    \/ InvokeNamed
    \/ DeliverDelete
    \/ onCreate
    \/ onDelete
    \/ CreateThing
    \/ CreateKeysAndCertificate
    \/ CreatePolicy
    \/ AttachPolicy
    \/ AttachThingPrincipal
    \/ PutParameterPrivateKey
    \/ PutParameterCertificatePem
    \/ DescribeEndpointDataAts
    \/ DescribeEndpointCredentialProvider
    \/ DeleteParameters
    \/ ListPolicyVersions
    \/ DeletePolicyVersion
    \/ ListTargetsForPolicy
    \/ DetachPolicyTarget
    \/ DeletePolicy
    \/ ListPrincipalThings
    \/ DetachThingPrincipalCertificate
    \/ ListAttachedPolicies
    \/ DetachPolicyCertificate
    \/ UpdateCertificate
    \/ DeleteCertificate
    \/ ListThingPrincipals
    \/ DetachThingPrincipal
    \/ DeleteThing

SpecNames == Init /\ [][NextNames]_vars

----------------------------------------------------------------------------
(* The constructs: getOrCreateProvider, called by the constructor of every  *)
(* declaration of a custom resource when the CDK app is synthesized.        *)

Stacks == {"stackA", "stackB"}

\* private customResourceName of the four construct classes
customResourceName(k) ==
    CASE k = RoleAlias -> "IotRoleAliasFunction"
      [] k = ThingCertPolicy -> "IotThingCertPolicyFunction"
      [] k = ThingGroup -> "IotThingGroupFunction"
      [] k = GreengrassV2 -> "GreengrassV2DeploymentFunction"

\* a construct: child `id` of `scope`; `obj` tells the objects apart
Construct(scope, id, type, obj, onEventHandler) ==
    [scope |-> scope, id |-> id, type |-> type, obj |-> obj,
     onEventHandler |-> onEventHandler]

\* new X(scope, id, ...) gives a fresh object
NewObject == "obj" \o ToString(Cardinality(constructs) + 1)
NextObject == "obj" \o ToString(Cardinality(constructs) + 2)

\* a lookup that never finds the child
tryFindChild_never(stack, id) == {}

\* stack.node.tryFindChild(id): the children of the stack with that id
\* (none: undefined)
tryFindChild(stack, id) == {c \in constructs : c.scope = stack /\ c.id = id}

getOrCreateProvider(k, stack) ==
    LET uniqueId == customResourceName(k)
        existing == tryFindChild(stack, uniqueId)
    IN /\ Len(provided) < MaxDeclarations
       /\ IF existing = {}
            THEN LET createThingFn ==
                         Construct(stack, uniqueId \o "-Provider", "NodejsFunction",
                                   NewObject, Undefined)
                     createThingProvider ==
                         Construct(stack, uniqueId, "Provider", NextObject, createThingFn.obj)
                 IN /\ constructs' = constructs \cup {createThingFn, createThingProvider}
                    /\ provided' = Append(provided, createThingProvider)
            ELSE /\ provided' = Append(provided, CHOOSE c \in existing : TRUE)
                 /\ UNCHANGED constructs
       /\ UNCHANGED <<kind, event, pc, locals, list, idx, calls, result, raised, exitCode, prior>>

\* the constructors of the declarations of the app, in any order and number
Declare == \E k \in Kinds : \E stack \in Stacks : getOrCreateProvider(k, stack)

NextSynth == Declare

SpecSynth == Init /\ [][NextSynth]_vars

----------------------------------------------------------------------------
(* Properties *)

Done == pc = "done"
Creating == event.RequestType = "Create"
Updating == event.RequestType = "Update"
Deleting == event.RequestType = "Delete"
DeletingBundle == kind = ThingCertPolicy /\ Deleting

Has(cmd) == \E i \in 1..Len(calls) : calls[i].cmd = cmd
Issued(cmd, input) == \E i \in 1..Len(calls) : calls[i].cmd = cmd /\ calls[i].input = input
IssuedBefore(j, cmd, input) ==
    \E i \in 1..(j - 1) : calls[i].cmd = cmd /\ calls[i].input = input
Rejected(cmd) == \E i \in 1..Len(calls) : calls[i].cmd = cmd /\ calls[i].outcome # Ok
NoData(r) == DOMAIN r.Data = {}
Times(cmd, input) ==
    Cardinality({i \in 1..Len(calls) : calls[i].cmd = cmd /\ calls[i].input = input})
\* the response of the (single) call of a command
RespOf(cmd) == calls[CHOOSE i \in 1..Len(calls) : calls[i].cmd = cmd].resp

\* C1: in a Create, a call that fails (is rejected with an error other than
\* "already exists") is the last call of the invocation: no call of a later step
\* is issued after it.
C1_CreateAborts ==
    Creating => \A i \in 1..Len(calls) : calls[i].outcome = Failure => i = Len(calls)

\* C2: a Delete of any kind never raises, whatever the outcomes of its calls, and
\* its result carries the event's PhysicalResourceId and an empty Data map.
C2_DeleteNeverRaises ==
    Deleting =>
        /\ raised = NoError
        /\ Done => /\ result.PhysicalResourceId = event.PhysicalResourceId
                   /\ NoData(result)

C2_Witness ==
    /\ DeletingBundle /\ Done
    /\ \A i \in 1..Len(calls) : calls[i].outcome # Ok
    /\ result.PhysicalResourceId = "id1"

\* C3: an Update of any kind issues no external call and returns the event's
\* PhysicalResourceId with an empty Data map.
C3_UpdateIsNoOp ==
    Updating =>
        /\ calls = <<>>
        /\ raised = NoError
        /\ pc \in {"idle", "onUpdate", "done"}
        /\ Done => /\ result.PhysicalResourceId = event.PhysicalResourceId
                   /\ NoData(result)

C3_Witness ==
    /\ Updating /\ Done /\ kind = GreengrassV2
    /\ event.ResourceProperties.FailCreate = JsTrue
    /\ result.PhysicalResourceId = "id1"

\* C4: a Create whose properties carry FailCreate = true raises before any step:
\* no external call is issued and no result is returned.
C4_FailCreateBeforeAnyStep ==
    (Creating /\ event.ResourceProperties.FailCreate = JsTrue) =>
        /\ calls = <<>>
        /\ result = NoResult
        /\ pc \in {"idle", "onCreate", "done"}
        /\ Done => raised = "Create failure requested, logging"

C4_Witness ==
    /\ Creating /\ Done /\ kind = ThingCertPolicy
    /\ event.ResourceProperties.FailCreate = JsTrue
    /\ raised # NoError

\* the detach call that releases entry e of the list call c
DetachCmd(c) ==
    IF c.cmd \in {"ListTargetsForPolicy", "ListAttachedPolicies"}
      THEN "DetachPolicy" ELSE "DetachThingPrincipal"
DetachInput(c, e) ==
    CASE c.cmd = "ListTargetsForPolicy" -> <<c.input[1], e>>
      [] c.cmd = "ListAttachedPolicies" -> <<e, c.input[1]>>
      [] c.cmd = "ListPrincipalThings" -> <<e, c.input[1]>>
      [] c.cmd = "ListThingPrincipals" -> <<c.input[1], e>>
EdgeLists == {"ListTargetsForPolicy", "ListAttachedPolicies",
              "ListPrincipalThings", "ListThingPrincipals"}

\* C5: in a Device Identity Bundle Delete, when DeleteThing is issued a detach call
\* has been issued for every edge the list calls of the invocation returned.
C5_DetachBeforeDeleteThing ==
    DeletingBundle =>
        \A j \in 1..Len(calls) : calls[j].cmd = "DeleteThing" =>
            \A i \in 1..(j - 1) : calls[i].cmd \in EdgeLists =>
                \A n \in 1..Len(calls[i].resp) :
                    IssuedBefore(j, DetachCmd(calls[i]), DetachInput(calls[i], calls[i].resp[n]))

\* the calls a Device Identity Bundle Delete issues whatever the responses
BundleDeleteSteps ==
    {"DeleteParameters", "ListPolicyVersions", "ListTargetsForPolicy", "DeletePolicy",
     "ListPrincipalThings", "ListAttachedPolicies", "UpdateCertificate",
     "DeleteCertificate", "ListThingPrincipals", "DeleteThing"}

\* every entry a list call returned has had its delete or detach call
EntriesAttempted ==
    \A i \in 1..Len(calls) :
        /\ calls[i].cmd \in EdgeLists =>
             \A n \in 1..Len(calls[i].resp) :
                 Issued(DetachCmd(calls[i]), DetachInput(calls[i], calls[i].resp[n]))
        /\ calls[i].cmd = "ListPolicyVersions" =>
             \A n \in 1..Len(calls[i].resp) :
                 ~calls[i].resp[n].isDefaultVersion =>
                     Issued("DeletePolicyVersion", <<calls[i].input[1], calls[i].resp[n].versionId>>)

\* C6: in a Delete, no failure keeps a later call of the sequence from being
\* attempted: when the invocation ends every step of the sequence has been issued.
C6_DeleteContinuesPastFailures ==
    (DeletingBundle /\ Done) =>
        /\ \A c \in BundleDeleteSteps : Has(c)
        /\ EntriesAttempted

\* C7: a Device Identity Bundle Delete always issues DeleteThing, exactly once and
\* as its last external call.
C7_DeleteThingLast ==
    DeletingBundle =>
        /\ \A i \in 1..Len(calls) : calls[i].cmd = "DeleteThing" => i = Len(calls) /\ Done
        /\ Done => Has("DeleteThing")

C7_Witness ==
    /\ DeletingBundle /\ Done
    /\ Len(calls) > 1
    /\ \A i \in 1..(Len(calls) - 1) : calls[i].outcome # Ok
    /\ calls[Len(calls)].cmd = "DeleteThing"

OnlyRejected(cmd) ==
    \A i \in 1..Len(calls) : calls[i].outcome # Ok <=> calls[i].cmd = cmd

\* C8: in a Device Identity Bundle Delete whose ListPolicyVersions call fails, the
\* certificate teardown and DeleteThing are still attempted (ListPrincipalThings,
\* the revoke and DeleteThing in every case; when nothing else fails also one
\* DetachThingPrincipal per thing listed for the certificate, one DetachPolicy per
\* policy listed for it, and DeleteCertificate), and the result carries the
\* event's PhysicalResourceId with empty Data.
C8_ListPolicyVersionsFails ==
    (DeletingBundle /\ Done /\ Rejected("ListPolicyVersions")) =>
        /\ Has("ListPrincipalThings")
        /\ Has("UpdateCertificate")
        /\ Has("DeleteThing")
        /\ raised = NoError
        /\ result.PhysicalResourceId = event.PhysicalResourceId
        /\ NoData(result)
        /\ OnlyRejected("ListPolicyVersions") =>
             LET p == event.ResourceProperties IN
             /\ Has("ListAttachedPolicies")
             /\ Times("DetachThingPrincipal", <<p.ThingName, p.CertificateArn>>)
                    = Len(RespOf("ListPrincipalThings"))
             /\ \A n \in 1..Len(RespOf("ListAttachedPolicies")) :
                    Issued("DetachPolicy", <<RespOf("ListAttachedPolicies")[n], p.CertificateArn>>)
             /\ Issued("UpdateCertificate", <<event.PhysicalResourceId, "REVOKED">>)
             /\ Issued("DeleteCertificate", <<event.PhysicalResourceId>>)

C8_Witness ==
    /\ DeletingBundle /\ Done
    /\ OnlyRejected("ListPolicyVersions")
    /\ Len(RespOf("ListPrincipalThings")) = 1
    /\ Has("DetachThingPrincipal")
    /\ Issued("DetachPolicy", <<"policy1", event.ResourceProperties.CertificateArn>>)
    /\ Has("DeleteCertificate")
    /\ result.PhysicalResourceId = "id1"

\* C9: a Device Group Membership Create in which every call succeeds issues one
\* CreateThingGroup and then one AddThingToThingGroup per listed thing, in list
\* order, and returns the created group's id as PhysicalResourceId with the
\* group's arn and id in Data.
C9_ThingGroupCreate ==
    (kind = ThingGroup /\ Creating /\ Done /\ raised = NoError /\ AllOk(calls)) =>
        LET p == event.ResourceProperties IN
        /\ Len(calls) = 1 + Len(p.ThingArnList)
        /\ calls[1].cmd = "CreateThingGroup"
        /\ calls[1].input[1] = p.ThingGroupName
        /\ \A n \in 1..Len(p.ThingArnList) :
             /\ calls[n + 1].cmd = "AddThingToThingGroup"
             /\ calls[n + 1].input = <<p.ThingGroupName, p.ThingArnList[n]>>
        /\ result.PhysicalResourceId = thingGroupId(p.ThingGroupName)
        /\ result.Data.ThingGroupArn = thingGroupArn(p.ThingGroupName)
        /\ result.Data.ThingGroupId = thingGroupId(p.ThingGroupName)

C9_Witness ==
    /\ kind = ThingGroup /\ Creating /\ Done /\ AllOk(calls)
    /\ Len(event.ResourceProperties.ThingArnList) = 2
    /\ Len(calls) = 3
    /\ result.PhysicalResourceId = "id:group1"

\* the only rejections of the invocation report that the named resource exists
OnlyAlreadyExists ==
    \A i \in 1..Len(calls) : calls[i].outcome \in {Ok, AlreadyExists}

\* C10: a Create delivered a second time with identical properties, after a first
\* delivery in which every call succeeded, returns the PhysicalResourceId the
\* first delivery returned ("already exists" counts as success).
C10_CreateIdempotent ==
    (/\ Creating /\ Done /\ prior # NoPrior /\ OnlyAlreadyExists
     /\ prior[Len(prior)].clean /\ prior[Len(prior)].raised = NoError) =>
        /\ raised = NoError
        /\ result.PhysicalResourceId = prior[Len(prior)].result.PhysicalResourceId

InvalidRequestType == event.RequestType \notin {"Create", "Update", "Delete"}

\* C11: for every kind, the handler raises only when the RequestType is not
\* Create, Update or Delete, or when the event is a Create whose FailCreate flag
\* is set: an invocation that has issued an external call never raises.
C11_RaisesOnlyInvalidOrForceFail ==
    raised # NoError =>
        /\ calls = <<>>
        /\ \/ InvalidRequestType
           \/ Creating /\ FailCreateRequested(event.ResourceProperties)

IdentityStep(k) ==
    CASE k = RoleAlias -> "CreateRoleAlias"
      [] k = ThingCertPolicy -> "CreateKeysAndCertificate"
      [] k = ThingGroup -> "CreateThingGroup"
      [] k = GreengrassV2 -> "CreateDeployment"

\* the identity value the response of call c carries
IdentityOf(c) ==
    CASE c.cmd = "CreateRoleAlias" -> c.input[1]
      [] c.cmd = "CreateThingGroup" -> thingGroupId(c.input[1])
      [] OTHER -> c.resp[1]

\* the identity value captured from the steps that succeeded ('' when none)
CapturedId ==
    LET is == {i \in 1..Len(calls) : calls[i].cmd = IdentityStep(kind) /\ calls[i].outcome = Ok}
    IN IF is = {} THEN "" ELSE IdentityOf(calls[CHOOSE i \in is : TRUE])

StepFailed == \E i \in 1..Len(calls) : calls[i].outcome # Ok

\* C13: for every kind, a Create in which a step failed still returns a result,
\* and its PhysicalResourceId is the identity value captured from the steps that
\* succeeded, or the empty string when none was captured.
C13_PartialIdentityReturned ==
    (Creating /\ Done /\ StepFailed) =>
        /\ raised = NoError
        /\ result # NoResult
        /\ result.PhysicalResourceId = CapturedId

\* a step other than the two endpoint lookups was rejected with an error
RequiredStepFailed ==
    \E i \in 1..Len(calls) : calls[i].outcome = Failure /\ calls[i].cmd # "DescribeEndpoint"

\* the Data map carries a value for at least one output attribute
Populated(r) == \E k \in DOMAIN r.Data : r.Data[k] # Undefined

\* C14: the Data map a Create returns is populated only when the Create
\* succeeded: after a Create in which a required step failed no output attribute
\* of the result has a value.
C14_DataOnlyOnSuccess ==
    (Creating /\ Done /\ RequiredStepFailed) => ~Populated(result)

\* some call of the command resolved
Resolved(cmd) == \E i \in 1..Len(calls) : calls[i].cmd = cmd /\ calls[i].outcome = Ok

\* the endpoint output after the lookup of one endpoint type
EndpointOutput(endpointType, address) ==
    IF \E i \in 1..Len(calls) : /\ calls[i].cmd = "DescribeEndpoint"
                                /\ calls[i].input = <<endpointType>>
                                /\ calls[i].outcome = Ok
      THEN address ELSE "stack_error: see log files"

EndpointLookupFailed ==
    /\ kind = ThingCertPolicy /\ Creating /\ Done
    /\ Rejected("DescribeEndpoint")

\* the result of a Device Identity Bundle Create after a failed endpoint lookup
EndpointLookupTolerated ==
    EndpointLookupFailed =>
        LET p == event.ResourceProperties
            d == result.Data
            n == Len(calls)
        IN /\ raised = NoError
           /\ n >= 2
           /\ calls[n - 1].cmd = "DescribeEndpoint" /\ calls[n - 1].input = <<"iot:Data-ATS">>
           /\ calls[n].cmd = "DescribeEndpoint" /\ calls[n].input = <<"iot:CredentialProvider">>
           /\ d.DataAtsEndpointAddress = EndpointOutput("iot:Data-ATS", "data-ats.endpoint")
           /\ d.CredentialProviderEndpointAddress =
                  EndpointOutput("iot:CredentialProvider", "credentials.endpoint")
           /\ result.PhysicalResourceId = CapturedId
           /\ d.ThingArn = IF Resolved("CreateThing") THEN "arn:thing/" \o p.ThingName ELSE Undefined
           /\ d.ThingName = p.ThingName
           /\ d.CertificateArn = IF CapturedId = "" THEN Undefined ELSE "arn:cert/" \o CapturedId
           /\ d.IotPolicyArn = IF Resolved("CreatePolicy") THEN "arn:policy/" \o p.IotPolicyName
                                                           ELSE Undefined
           /\ d.PrivateKeySecretParameter = parameter_private_key(p)
           /\ d.CertificatePemParameter = parameter_certificate_pem(p)

\* a step that issues an endpoint lookup does not write process.exitCode
EndpointLookupKeepsExitCode ==
    pc \in {"DescribeEndpointDataAts", "DescribeEndpointCredentialProvider"} =>
        exitCode' = exitCode

\* C15: in a Device Identity Bundle Create a failed DescribeEndpoint lookup does
\* not fail the Create (the handler does not raise and the lookup step leaves
\* process.exitCode as it was), the sequence goes on to its end, the endpoint
\* output of the failed lookup is 'stack_error: see log files', and the
\* PhysicalResourceId and the other outputs are what the other steps produced.
C15_EndpointSentinel ==
    /\ []EndpointLookupTolerated
    /\ [][EndpointLookupKeepsExitCode]_vars

C15_Witness ==
    /\ EndpointLookupFailed
    /\ OnlyRejected("DescribeEndpoint")
    /\ result.Data.DataAtsEndpointAddress = "stack_error: see log files"
    /\ result.Data.CredentialProviderEndpointAddress = "stack_error: see log files"
    /\ result.PhysicalResourceId = "cert2"
    /\ exitCode = Undefined

\* the calls of a Create in which every step succeeded
CreateSteps(k) ==
    CASE k = RoleAlias -> 1
      [] k = ThingCertPolicy -> 9
      [] k = ThingGroup -> 1 + Len(event.ResourceProperties.ThingArnList)
      [] k = GreengrassV2 -> 1

\* C16: a Create in which every step succeeds returns as PhysicalResourceId the
\* value its identity step surfaced: the certificate id CreateKeysAndCertificate
\* returned (Device Identity Bundle), the role alias name (Credential-Exchange
\* Binding), the thing group id CreateThingGroup returned (Device Group
\* Membership), the deployment id CreateDeployment returned (Fleet Deployment).
C16_IdentityStep ==
    (Creating /\ Done /\ raised = NoError /\ AllOk(calls)) =>
        /\ Len(calls) = CreateSteps(kind)
        /\ Resolved(IdentityStep(kind))
        /\ result.PhysicalResourceId = CapturedId
        /\ result.PhysicalResourceId \notin {"", Undefined}
        /\ kind = RoleAlias => result.PhysicalResourceId = event.ResourceProperties.IotRoleAliasName
        /\ kind = ThingCertPolicy => result.PhysicalResourceId \in CertificateIds
        /\ kind = GreengrassV2 => result.PhysicalResourceId \in DeploymentIds

C16_Witness ==
    /\ Creating /\ Done /\ AllOk(calls)
    /\ kind = ThingCertPolicy
    /\ Len(calls) = 9
    /\ result.PhysicalResourceId = "cert2"

\* the handler's promise rejected: the custom resource provider, which reports
\* what its onEventHandler did, reports a failed provisioning event
ReportsFailure == raised # NoError

\* C17: for every kind, when a required step of a Create fails the invocation is
\* reported to the caller as failed (the handler raises) and not as a normal
\* result.
C17_FailedCreateReported ==
    (Creating /\ Done /\ RequiredStepFailed) => ReportsFailure

\* C18: invocations share no mutable state: nothing an invocation wrote to the
\* process is still set when the process waits for its next event, so
\* process.exitCode is as at start whenever no invocation is running.
C18_NoSharedState ==
    pc = "idle" => exitCode = Undefined

\* the phase of the Delete sequence a call belongs to, as the claim lists them
\* (0: a call the claim does not place, i.e. a list call or DeletePolicy)
ClaimedPhase(c) ==
    CASE c.cmd = "DeleteParameters" -> 1
      [] c.cmd = "DeletePolicyVersion" -> 2
      [] c.cmd \in {"DetachPolicy", "DetachThingPrincipal"} -> 3
      [] c.cmd \in {"UpdateCertificate", "DeleteCertificate"} -> 4
      [] c.cmd = "DeleteThing" -> 5
      [] OTHER -> 0

OfCertificate(c) == c.input[2] = event.ResourceProperties.CertificateArn

\* the phase of the Delete sequence a call belongs to
BundlePhase(c) ==
    CASE c.cmd = "DeleteParameters" -> 1
      [] c.cmd \in {"ListPolicyVersions", "DeletePolicyVersion"} -> 2
      [] c.cmd = "ListTargetsForPolicy" -> 3
      [] c.cmd = "DetachPolicy" /\ ~OfCertificate(c) -> 3
      [] c.cmd = "DeletePolicy" -> 4
      [] c.cmd \in {"ListPrincipalThings", "ListAttachedPolicies"} -> 5
      [] c.cmd \in {"DetachPolicy", "DetachThingPrincipal"} /\ OfCertificate(c) -> 5
      [] c.cmd = "UpdateCertificate" -> 6
      [] c.cmd = "DeleteCertificate" -> 7
      [] c.cmd = "ListThingPrincipals" -> 8
      [] c.cmd = "DetachThingPrincipal" /\ ~OfCertificate(c) -> 8
      [] c.cmd = "DeleteThing" -> 9
BundlePhases == 1..9 \ {7}

C20_CancelsCreatedDeployment ==
    (kind = GreengrassV2 /\ Deleting /\ Done /\ prior # NoPrior) =>
        /\ Has("CancelDeployment")
        /\ \A i \in 1..Len(calls) :
               calls[i].cmd = "CancelDeployment" =>
                   calls[i].input = <<prior[1].result.Data.DeploymentId>>

\* C21: a Credential-Exchange Binding Delete issues exactly one external call,
\* DeleteRoleAlias for the alias named in the event, and no call on the IAM role
\* behind the alias.
C21_DeleteRoleAliasOnly ==
    (kind = RoleAlias /\ Deleting) =>
        /\ Len(calls) <= 1
        /\ \A i \in 1..Len(calls) :
               /\ calls[i].cmd = "DeleteRoleAlias"
               /\ calls[i].input = <<event.ResourceProperties.IotRoleAliasName>>
        /\ Done => Len(calls) = 1

C21_Witness ==
    /\ kind = RoleAlias /\ Deleting /\ Done
    /\ calls = <<Call("DeleteRoleAlias", <<"alias1">>, Failure, <<>>)>>
    /\ result.PhysicalResourceId = "id1"

\* the calls that take a resource or an edge away
TeardownCommands ==
    {"DeleteRoleAlias", "CancelDeployment", "DeleteThingGroup", "DeleteParameters",
     "DeletePolicyVersion", "DetachPolicy", "DeletePolicy", "DetachThingPrincipal",
     "UpdateCertificate", "DeleteCertificate", "DeleteThing",
     "RemoveThingFromThingGroup"}

\* the calls of the Create sequences
ProvisioningCommands ==
    {"CreateRoleAlias", "CreateDeployment", "CreateThingGroup", "AddThingToThingGroup",
     "CreateThing", "CreateKeysAndCertificate", "CreatePolicy", "AttachPolicy",
     "AttachThingPrincipal", "PutParameter", "DescribeEndpoint"}

\* C22: a Create never rolls back: whatever fails, it issues no delete, detach,
\* revoke or cancel call, only calls of its own step sequence, so what the
\* steps that succeeded created is still there when the invocation ends.
C22_NoRollback ==
    Creating =>
        \A i \in 1..Len(calls) :
            /\ calls[i].cmd \notin TeardownCommands
            /\ calls[i].cmd \in ProvisioningCommands

C22_Witness ==
    /\ kind = ThingGroup /\ Creating /\ Done
    /\ Len(calls) = 2
    /\ calls[1].cmd = "CreateThingGroup" /\ calls[1].outcome = Ok
    /\ calls[2].cmd = "AddThingToThingGroup" /\ calls[2].outcome = Failure
    /\ result.PhysicalResourceId = "id:group1"

\* C23 as stated: every Update or Delete event of a resource, carrying the
\* PhysicalResourceId the resource's Create returned, carries a non-empty one.
C23_NonEmptyPhysicalResourceId ==
    (Updating \/ Deleting) => event.PhysicalResourceId \notin {"", Undefined}

\* the step from the end of a Create to the Update or Delete event that follows it
FollowUpCarriesCapturedId ==
    (Creating /\ Done /\ event'.RequestType \in {"Update", "Delete"}) =>
        /\ event'.PhysicalResourceId = CapturedId
        /\ event'.PhysicalResourceId # Undefined
        /\ event'.PhysicalResourceId = "" <=> ~Resolved(IdentityStep(kind))

\* C23 amended: every Update or Delete event of a resource carries the identity
\* value the resource's Create captured: a non-empty PhysicalResourceId when the
\* identity step of the Create succeeded, and the empty string when it failed.
C23_FollowUpCarriesCapturedId == [][FollowUpCarriesCapturedId]_vars

\* a Delete that has run to its end with the empty PhysicalResourceId of a
\* Create whose identity step failed
C23_Witness ==
    /\ kind = ThingCertPolicy /\ Deleting /\ Done
    /\ event.PhysicalResourceId = ""
    /\ result.PhysicalResourceId = ""
    /\ exitCode = ExitFailure

\* the constructs of a type that a stack holds for a resource name
Built(stack, id, type) ==
    {c \in constructs : c.scope = stack /\ c.id = id /\ c.type = type}

\* C24: for a stack and a resource kind, after any number of
\* getOrCreateProvider calls exactly one provider and one handler function have
\* been constructed, and every call returned that one provider.
C24_ProviderSingleton ==
    \A stack \in Stacks : \A k \in Kinds :
        LET name == customResourceName(k)
            got == {i \in 1..Len(provided) :
                       provided[i].scope = stack /\ provided[i].id = name}
        IN got # {} =>
             /\ Cardinality(Built(stack, name, "Provider")) = 1
             /\ Cardinality(Built(stack, name \o "-Provider", "NodejsFunction")) = 1
             /\ \A i \in got : provided[i] \in Built(stack, name, "Provider")
             /\ \A i, j \in got : provided[i].obj = provided[j].obj
             /\ \A i \in got :
                    \E f \in Built(stack, name \o "-Provider", "NodejsFunction") :
                        provided[i].onEventHandler = f.obj

C24_Witness ==
    /\ Len(provided) = 3
    /\ provided[1] = provided[3]
    /\ provided[1] # provided[2]
    /\ provided[1].id = provided[2].id
    /\ Cardinality(constructs) = 4

\* C25: every detach call of a Device Identity Bundle Delete releases an edge
\* (thing-principal or policy-target pair) that a list call issued earlier in the
\* same invocation returned.
C25_DetachTargetsListedEdges ==
    DeletingBundle =>
        \A j \in 1..Len(calls) :
            calls[j].cmd \in {"DetachPolicy", "DetachThingPrincipal"} =>
                \E i \in 1..(j - 1) :
                    /\ calls[i].cmd \in EdgeLists
                    /\ calls[i].outcome = Ok
                    /\ DetachCmd(calls[i]) = calls[j].cmd
                    /\ \E n \in 1..Len(calls[i].resp) :
                           DetachInput(calls[i], calls[i].resp[n]) = calls[j].input

\* the place of a call in the order the claim states (0: not placed)
ClaimedUnwindRank(c) ==
    CASE c.cmd \in {"DetachPolicy", "DetachThingPrincipal"} -> 1
      [] c.cmd = "DeletePolicyVersion" -> 2
      [] c.cmd = "DeletePolicy" -> 3
      [] c.cmd = "DeleteThing" -> 4
      [] OTHER -> 0

\* C26 as stated: in a Device Identity Bundle Delete the detach calls come first,
\* then the deletions of the non-default policy versions, then DeletePolicy, and
\* DeleteThing last: no version or policy deletion precedes a detach call.
C26_DetachThenDelete ==
    DeletingBundle =>
        \A i, j \in 1..Len(calls) :
            (i < j /\ ClaimedUnwindRank(calls[i]) > 0 /\ ClaimedUnwindRank(calls[j]) > 0) =>
                ClaimedUnwindRank(calls[i]) <= ClaimedUnwindRank(calls[j])

\* the place of a call in the order of the code (0: not placed)
UnwindRank(c) ==
    CASE c.cmd = "DeletePolicyVersion" -> 1
      [] c.cmd = "DetachPolicy" /\ ~OfCertificate(c) -> 2
      [] c.cmd = "DeletePolicy" -> 3
      [] c.cmd = "DetachPolicy" /\ OfCertificate(c) -> 4
      [] c.cmd = "DetachThingPrincipal" -> 4
      [] c.cmd = "DeleteThing" -> 5
      [] OTHER -> 0

\* C26 amended: in a Device Identity Bundle Delete the non-default policy
\* versions are deleted first, then the policy's targets are detached, then the
\* policy is deleted, then the edges of the certificate and of the thing are
\* detached, and the thing is deleted last: no DeletePolicy is attempted before
\* the detach calls for the policy's targets, no DeletePolicyVersion after them,
\* and DeleteThing follows every detach and every deletion.
C26_PolicyThenEdgesThenThing ==
    DeletingBundle =>
        \A i, j \in 1..Len(calls) :
            (i < j /\ UnwindRank(calls[i]) > 0 /\ UnwindRank(calls[j]) > 0) =>
                UnwindRank(calls[i]) <= UnwindRank(calls[j])

C26_Witness ==
    /\ DeletingBundle /\ Done /\ AllOk(calls)
    /\ \E i, j, k \in 1..Len(calls) :
          /\ i < j /\ j < k
          /\ calls[i].cmd = "DeletePolicyVersion"
          /\ calls[j].cmd = "DetachPolicy" /\ calls[j].input = <<"policy1", "target1">>
          /\ calls[k].cmd = "DeletePolicy"
    /\ calls[Len(calls)].cmd = "DeleteThing"

\* C27: in a Device Identity Bundle Delete, DeletePolicyVersion is issued only
\* for a version that the invocation's ListPolicyVersions call reported as not
\* the default version, and every DeletePolicyVersion call precedes DeletePolicy.
C27_OnlyNonDefaultVersions ==
    DeletingBundle =>
        \A j \in 1..Len(calls) :
            calls[j].cmd = "DeletePolicyVersion" =>
                /\ \E i \in 1..(j - 1) :
                       /\ calls[i].cmd = "ListPolicyVersions"
                       /\ calls[i].outcome = Ok
                       /\ calls[i].input[1] = calls[j].input[1]
                       /\ \E n \in 1..Len(calls[i].resp) :
                              /\ calls[i].resp[n].versionId = calls[j].input[2]
                              /\ ~calls[i].resp[n].isDefaultVersion
                /\ \A k \in 1..Len(calls) : calls[k].cmd = "DeletePolicy" => j < k

C27_Witness ==
    /\ DeletingBundle /\ Done
    /\ \E i \in 1..Len(calls) :
          /\ calls[i].cmd = "ListPolicyVersions"
          /\ Len(calls[i].resp) = 2
          /\ calls[i].resp[1].isDefaultVersion
          /\ ~calls[i].resp[2].isDefaultVersion
    /\ Times("DeletePolicyVersion", <<"policy1", "2">>) = 1
    /\ ~Issued("DeletePolicyVersion", <<"policy1", "1">>)
    /\ Has("DeletePolicy")

\* C28: in a Device Identity Bundle Delete, DeleteCertificate is issued only
\* after an UpdateCertificate(REVOKED) call for the same certificate id, the
\* event's PhysicalResourceId, has succeeded in the invocation; when the revoke
\* fails no DeleteCertificate is issued.
C28_DeleteOnlyAfterRevoke ==
    DeletingBundle =>
        /\ \A j \in 1..Len(calls) :
               calls[j].cmd = "DeleteCertificate" =>
                   /\ calls[j].input = <<event.PhysicalResourceId>>
                   /\ \E i \in 1..(j - 1) :
                          /\ calls[i].cmd = "UpdateCertificate"
                          /\ calls[i].input = <<calls[j].input[1], "REVOKED">>
                          /\ calls[i].outcome = Ok
        /\ Rejected("UpdateCertificate") => ~Has("DeleteCertificate")

C28_Witness ==
    /\ DeletingBundle /\ Done
    /\ \E i \in 1..Len(calls) :
          /\ calls[i] = Call("UpdateCertificate", <<"id1", "REVOKED">>, Ok, <<>>)
          /\ calls[i + 1] = Call("DeleteCertificate", <<"id1">>, Failure, <<>>)


\* the AddThingToThingGroup calls of the invocation, in the order they were issued
Adds == SelectSeq(calls, LAMBDA c : c.cmd = "AddThingToThingGroup")

\* C29: in a Device Group Membership Create the AddThingToThingGroup calls are
\* issued in ThingArnList order and stop at the first one that fails: nothing is
\* issued for the things after it, and the returned PhysicalResourceId and Data
\* depend on the CreateThingGroup response only, so they are what they would be
\* had every add succeeded.
C29_AddsStopAtFirstFailure ==
    (kind = ThingGroup /\ Creating /\ Done /\ Has("CreateThingGroup")) =>
        LET p == event.ResourceProperties
            created == calls[1].outcome = Ok
        IN /\ Len(Adds) <= Len(p.ThingArnList)
           /\ \A n \in 1..Len(Adds) :
                /\ Adds[n].input = <<p.ThingGroupName, p.ThingArnList[n]>>
                /\ Adds[n].outcome # Ok => n = Len(Adds)
           /\ (\A n \in 1..Len(Adds) : Adds[n].outcome = Ok) =>
                  Len(Adds) = Len(p.ThingArnList)
           /\ result.PhysicalResourceId =
                  IF created THEN thingGroupId(p.ThingGroupName) ELSE ""
           /\ result.Data.ThingGroupName = p.ThingGroupName
           /\ result.Data.ThingGroupArn =
                  IF created THEN thingGroupArn(p.ThingGroupName) ELSE Undefined
           /\ result.Data.ThingGroupId =
                  IF created THEN thingGroupId(p.ThingGroupName) ELSE Undefined

C29_Witness ==
    /\ kind = ThingGroup /\ Creating /\ Done /\ Has("CreateThingGroup")
    /\ Len(event.ResourceProperties.ThingArnList) = 2
    /\ calls[1].cmd = "CreateThingGroup" /\ calls[1].outcome = Ok
    /\ Len(Adds) = 1
    /\ Adds[1].input = <<"group1", event.ResourceProperties.ThingArnList[1]>>
    /\ Adds[1].outcome = Failure
    /\ result.Data.ThingGroupId = "id:group1"


\* names of the two parameters of a bundle, written out from its properties
PrivateKeyName(p) == "/" \o p.StackName \o "/" \o p.ThingName \o "/private_key"
CertificatePemName(p) == "/" \o p.StackName \o "/" \o p.ThingName \o "/certificate_pem"

\* the parameter names the requests of the invocation carry
Written == {calls[i].input[1] : i \in {n \in 1..Len(calls) : calls[n].cmd = "PutParameter"}}
AskedToDelete ==
    UNION {{calls[i].input[n] : n \in 1..Len(calls[i].input)} :
           i \in {n \in 1..Len(calls) : calls[n].cmd = "DeleteParameters"}}

\* C30: for any StackName and ThingName, a Device Identity Bundle Create writes
\* the parameters /<StackName>/<ThingName>/private_key and
\* /<StackName>/<ThingName>/certificate_pem and returns exactly these two names
\* as PrivateKeySecretParameter and CertificatePemParameter, and the Delete of
\* the same properties asks to delete the set of these two names.
C30_ParameterNamesAgree ==
    LET p == event.ResourceProperties
        names == {PrivateKeyName(p), CertificatePemName(p)}
    IN /\ (kind = ThingCertPolicy /\ Creating) =>
             /\ Written \subseteq names
             /\ \A i \in 1..Len(calls) :
                    calls[i].cmd = "PutParameter" =>
                        calls[i].input[1] = IF calls[i].input[3] = "SecureString"
                                              THEN PrivateKeyName(p)
                                              ELSE CertificatePemName(p)
             /\ (Done /\ AllOk(calls) /\ raised = NoError) => Written = names
             /\ (Done /\ raised = NoError) =>
                    /\ result.Data.PrivateKeySecretParameter = PrivateKeyName(p)
                    /\ result.Data.CertificatePemParameter = CertificatePemName(p)
       /\ (DeletingBundle /\ Has("DeleteParameters")) =>
             /\ AskedToDelete = names
             /\ prior # NoPrior =>
                    AskedToDelete = {prior[1].result.Data.PrivateKeySecretParameter,
                                     prior[1].result.Data.CertificatePemParameter}

C30_Witness ==
    /\ DeletingBundle /\ Done /\ prior # NoPrior
    /\ event.ResourceProperties.StackName = "stack2"
    /\ event.ResourceProperties.ThingName = "thing1"
    /\ prior[1].result.Data.PrivateKeySecretParameter = "/stack2/thing1/private_key"
    /\ prior[1].result.Data.CertificatePemParameter = "/stack2/thing1/certificate_pem"
    /\ calls[1] = Call("DeleteParameters",
                       <<"/stack2/thing1/private_key", "/stack2/thing1/certificate_pem">>,
                       Ok, <<>>)

====
